---------------------------- MODULE Spec2Model ----------------------------
(***************************************************************************)
(* The /logo slash command of discord_logo_bot.py: the coroutine           *)
(* generate_logo, the module global generate_logo_svg it tests, the        *)
(* requests it sends to the chat platform and its call of the remote       *)
(* generator.                                                              *)
(*                                                                         *)
(* A Python str is modelled as the sequence of its Unicode code points, a  *)
(* bytes object as the sequence of its byte values.  The handler is a      *)
(* coroutine on a single-threaded event loop: one action is the code that  *)
(* runs between two suspension points (the awaits on lines 66, 78, 97 and  *)
(* 105).  The call on line 82 is not awaited: it is an ordinary call that  *)
(* keeps the thread until the remote generator answers.                    *)
(***************************************************************************)
EXTENDS Integers, Sequences, FiniteSets, TLC

\* Number of invocations of the command in one run.
MaxInv == 2

Inv == 1..MaxInv

-----------------------------------------------------------------------------
(* Text constants of the source, as code points.                           *)

\* "❌ Modal app not connected. Please check the bot logs."
NotConnectedText == <<10060, 32, 77, 111, 100, 97, 108, 32, 97, 112, 112, 32, 110, 111, 116, 32, 99, 111, 110, 110, 101, 99, 116, 101, 100, 46, 32, 80, 108, 101, 97, 115, 101, 32, 99, 104, 101, 99, 107, 32, 116, 104, 101, 32, 98, 111, 116, 32, 108, 111, 103, 115, 46>>

\* " in "   and   " style"   (the f-string of line 75)
InText == <<32, 105, 110, 32>>
StyleText == <<32, 115, 116, 121, 108, 101>>

\* "logo_"   and   ".svg"   (the f-string of line 87)
LogoPrefix == <<108, 111, 103, 111, 95>>
SvgSuffix == <<46, 115, 118, 103>>

\* "\U0001f3a8 Logo Generated!"
GeneratedTitle == <<127912, 32, 76, 111, 103, 111, 32, 71, 101, 110, 101, 114, 97, 116, 101, 100, 33>>

\* "**Prompt:** "
PromptLabel == <<42, 42, 80, 114, 111, 109, 112, 116, 58, 42, 42, 32>>

\* "Powered by Modal + Qwen3-8B"
FooterText == <<80, 111, 119, 101, 114, 101, 100, 32, 98, 121, 32, 77, 111, 100, 97, 108, 32, 43, 32, 81, 119, 101, 110, 51, 45, 56, 66>>

\* "❌ Generation Failed"
FailedTitle == <<10060, 32, 71, 101, 110, 101, 114, 97, 116, 105, 111, 110, 32, 70, 97, 105, 108, 101, 100>>

\* "```"
Fence == <<96, 96, 96>>

\* The value of each app_commands.Choice of the style parameter, by name.
StyleChoices ==
    [ Cyberpunk    |-> <<99, 121, 98, 101, 114, 112, 117, 110, 107, 32, 110, 101, 111, 110, 32, 119, 105, 116, 104, 32, 99, 105, 114, 99, 117, 105, 116, 32, 112, 97, 116, 116, 101, 114, 110, 115>>,
      Minimalist   |-> <<109, 105, 110, 105, 109, 97, 108, 105, 115, 116, 32, 103, 101, 111, 109, 101, 116, 114, 105, 99, 32, 99, 108, 101, 97, 110>>,
      Retro        |-> <<114, 101, 116, 114, 111, 32, 56, 48, 115, 32, 115, 121, 110, 116, 104, 119, 97, 118, 101>>,
      Gaming       |-> <<103, 97, 109, 105, 110, 103, 32, 101, 115, 112, 111, 114, 116, 115, 32, 98, 111, 108, 100>>,
      TechStartup  |-> <<109, 111, 100, 101, 114, 110, 32, 116, 101, 99, 104, 32, 115, 116, 97, 114, 116, 117, 112, 32, 112, 114, 111, 102, 101, 115, 115, 105, 111, 110, 97, 108>> ]

\* style: app_commands.Choice[str] = None
NoStyle == "None"
StyleOptions == {NoStyle} \cup DOMAIN StyleChoices

\* What the stub of logo_generator.py returns: "<svg>...</svg>"
StubSvg == <<60, 115, 118, 103, 62, 46, 46, 46, 60, 47, 115, 118, 103, 62>>

-----------------------------------------------------------------------------
(* Inputs of the model.                                                    *)

\* prompt: "a fox" and "café logo"
Prompts == { <<97, 32, 102, 111, 120>>, <<99, 97, 102, 233, 32, 108, 111, 103, 111>> }

\* The parameters an invocation may carry.  The first invocation ranges over
\* every prompt and every style option; the invocations that run beside it
\* carry "a fox" with Retro.
Parameters(i) ==
    IF i = 1 THEN Prompts \X StyleOptions ELSE { << <<97, 32, 102, 111, 120>>, "Retro" >> }

\* What the remote generator may return: the stub's constant, and a text
\* with code points of two, three and four UTF-8 bytes:
\* "<svg>é€\U0001f3a8</svg>"
SvgResults == { StubSvg, <<60, 115, 118, 103, 62, 233, 8364, 127912, 60, 47, 115, 118, 103, 62>> }

\* Exceptions are instances of Exception, given by their args.
\* Exception()  and  Exception("GPU timeout")
RemoteErrors == { [args |-> <<>>], [args |-> << <<71, 80, 85, 32, 116, 105, 109, 101, 111, 117, 116>> >>] }

\* What followup.send raises when the platform rejects the request:
\* an exception whose text is "500 Internal Server Error"
PlatformErrors == { [args |-> << <<53, 48, 48, 32, 73, 110, 116, 101, 114, 110, 97, 108, 32, 83, 101, 114, 118, 101, 114, 32, 69, 114, 114, 111, 114>> >>] }

\* Values datetime.now() may return.
SampleTimes ==
    { [year |-> 2026, month |-> 1,  day |-> 2,  hour |-> 3,  minute |-> 4,  second |-> 5],
      [year |-> 1999, month |-> 12, day |-> 31, hour |-> 23, minute |-> 59, second |-> 59] }

-----------------------------------------------------------------------------
(* Pure functions.                                                         *)

\* ComposePrompt without the closing " style".
ComposePrompt_NoSuffix(p, s) ==
    IF s = NoStyle THEN p ELSE p \o InText \o StyleChoices[s]

\* full_prompt = prompt; if style: full_prompt = f"{prompt} in {style.value} style"
ComposePrompt(p, s) ==
    IF s = NoStyle THEN p ELSE p \o InText \o StyleChoices[s] \o StyleText

\* Utf8Bytes as a one-byte encoding: the low byte of every code point.
Utf8Bytes_OneByte(cp) == <<cp % 256>>

\* str.encode('utf-8') of one code point (no surrogate among the inputs).
Utf8Bytes(cp) ==
    IF cp < 128 THEN <<cp>>
    ELSE IF cp < 2048 THEN <<192 + (cp \div 64), 128 + (cp % 64)>>
    ELSE IF cp < 65536
         THEN <<224 + (cp \div 4096), 128 + ((cp \div 64) % 64), 128 + (cp % 64)>>
         ELSE <<240 + (cp \div 262144), 128 + ((cp \div 4096) % 64),
                128 + ((cp \div 64) % 64), 128 + (cp % 64)>>

RECURSIVE Utf8Encode(_)
Utf8Encode(s) ==
    IF s = <<>> THEN <<>> ELSE Utf8Bytes(Head(s)) \o Utf8Encode(Tail(s))

\* The decimal digits of n, as code points.
RECURSIVE Decimal(_)
Decimal(n) ==
    IF n < 10 THEN <<48 + n>> ELSE Decimal(n \div 10) \o <<48 + (n % 10)>>

\* A decimal number zero-padded to w digits (%m, %d, %H, %M, %S: w = 2; %Y: w = 4).
RECURSIVE ZeroPad(_, _)
ZeroPad(d, w) == IF Len(d) >= w THEN d ELSE ZeroPad(<<48>> \o d, w)

\* Strftime without the zero padding of the fields.
Strftime_Unpadded(t) ==
    Decimal(t.year) \o Decimal(t.month) \o Decimal(t.day) \o <<95>>
        \o Decimal(t.hour) \o Decimal(t.minute) \o Decimal(t.second)

\* datetime.strftime('%Y%m%d_%H%M%S')
Strftime(t) ==
    ZeroPad(Decimal(t.year), 4) \o ZeroPad(Decimal(t.month), 2)
        \o ZeroPad(Decimal(t.day), 2) \o <<95>>
        \o ZeroPad(Decimal(t.hour), 2) \o ZeroPad(Decimal(t.minute), 2)
        \o ZeroPad(Decimal(t.second), 2)

\* str(e) of an exception with no argument or one text argument.
Str(exc) == IF exc.args = <<>> THEN <<>> ELSE exc.args[1]

\* discord.File(fp=io.BytesIO(svg_code.encode('utf-8')), filename=f"logo_{...}.svg")
SvgFile(svg, t) ==
    [ filename |-> LogoPrefix \o Strftime(t) \o SvgSuffix,
      fp       |-> Utf8Encode(svg) ]

\* The embed of lines 90-95.
ResultEmbed(fp) ==
    [ title |-> GeneratedTitle, description |-> PromptLabel \o fp,
      color |-> "blue", footer |-> FooterText ]

\* The embed of lines 100-104.
ErrorEmbed(exc) ==
    [ title |-> FailedTitle, description |-> Fence \o Str(exc) \o Fence,
      color |-> "red", footer |-> <<>> ]

-----------------------------------------------------------------------------
(* Requests of the handler, in the order it issues them.  status is        *)
(* "pending" while the handler waits for the answer.                       *)

\* interaction.response.send_message("...", ephemeral=True)
SendMessageRequest ==
    [ kind |-> "send_message", status |-> "pending", ephemeral |-> TRUE,
      content |-> NotConnectedText, embeds |-> <<>>, files |-> <<>> ]

\* interaction.response.defer()
DeferRequest ==
    [ kind |-> "defer", status |-> "pending", ephemeral |-> FALSE,
      content |-> <<>>, embeds |-> <<>>, files |-> <<>> ]

\* generate_logo_svg.remote(prompt=full_prompt)
RemoteCall(fp) ==
    [ kind |-> "remote", status |-> "pending", prompt |-> fp, outcome |-> <<>> ]

\* interaction.followup.send(embed=embed, file=svg_file)
ResultFollowup(fp, svg, t) ==
    [ kind |-> "followup", status |-> "pending", ephemeral |-> FALSE,
      content |-> <<>>, embeds |-> <<ResultEmbed(fp)>>, files |-> <<SvgFile(svg, t)>> ]

\* ErrorFollowup without ephemeral=True.
ErrorFollowup_Public(exc) ==
    [ kind |-> "followup", status |-> "pending", ephemeral |-> FALSE,
      content |-> <<>>, embeds |-> <<ErrorEmbed(exc)>>, files |-> <<>> ]

\* interaction.followup.send(embed=error_embed, ephemeral=True)
ErrorFollowup(exc) ==
    [ kind |-> "followup", status |-> "pending", ephemeral |-> TRUE,
      content |-> <<>>, embeds |-> <<ErrorEmbed(exc)>>, files |-> <<>> ]

-----------------------------------------------------------------------------
VARIABLES
    generate_logo_svg,  \* the module global: "Function", or "None" after ImportError
    pc,                 \* where each invocation's handler stands
    prompt, style,      \* the parameters of each invocation
    full_prompt,        \* local of the handler
    svg_code,           \* local of the handler
    e,                  \* local of the handler: <<>> or <<the caught exception>>
    io                  \* per invocation: its requests to the platform and its
                        \* calls of the remote generator, in order

vars == <<generate_logo_svg, pc, prompt, style, full_prompt, svg_code, e, io>>

\* The last request of a trace, answered.
Settled(trace, st) == [trace EXCEPT ![Len(trace)].status = st]

\* The thread is inside generate_logo_svg.remote(...): the event loop runs nothing.
Blocked == \E i \in Inv : pc[i] = "remote"

\* Lines 16-38: the import succeeds, or ImportError leaves generate_logo_svg = None.
Init ==
    /\ generate_logo_svg \in {"Function", "None"}
    /\ pc = [i \in Inv |-> "none"]
    /\ prompt = [i \in Inv |-> <<>>]
    /\ style = [i \in Inv |-> NoStyle]
    /\ full_prompt = [i \in Inv |-> <<>>]
    /\ svg_code = [i \in Inv |-> <<>>]
    /\ e = [i \in Inv |-> <<>>]
    /\ io = [i \in Inv |-> <<>>]

\* A user invokes /logo: the platform delivers the interaction with its
\* parameters, and the command tree schedules generate_logo(interaction, p, s).
Invoke(i, p, s) ==
    /\ pc[i] = "none"
    /\ \A j \in Inv : j < i => pc[j] # "none"
    /\ pc' = [pc EXCEPT ![i] = "queued"]
    /\ prompt' = [prompt EXCEPT ![i] = p]
    /\ style' = [style EXCEPT ![i] = s]
    /\ UNCHANGED <<generate_logo_svg, full_prompt, svg_code, e, io>>

\* StartUnavailable without the return of line 70: the handler goes on to
\* line 78.
StartUnavailable_NoReturn(i) ==
    /\ pc[i] = "queued"
    /\ ~Blocked
    /\ generate_logo_svg = "None"
    /\ full_prompt' = [full_prompt EXCEPT ![i] = ComposePrompt(prompt[i], style[i])]
    /\ io' = [io EXCEPT ![i] =
                Append(Append(@, [SendMessageRequest EXCEPT !.status = "accepted"]),
                       DeferRequest)]
    /\ pc' = [pc EXCEPT ![i] = "defer"]
    /\ UNCHANGED <<generate_logo_svg, prompt, style, svg_code, e>>

\* Lines 65-70: the generator is unset; the handler sends the private notice.
StartUnavailable(i) ==
    /\ pc[i] = "queued"
    /\ ~Blocked
    /\ generate_logo_svg = "None"
    /\ io' = [io EXCEPT ![i] = Append(@, SendMessageRequest)]
    /\ pc' = [pc EXCEPT ![i] = "send_message"]
    /\ UNCHANGED <<generate_logo_svg, prompt, style, full_prompt, svg_code, e>>

\* StartDefer without the test of line 65.
StartDefer_NoCheck(i) ==
    /\ pc[i] = "queued"
    /\ ~Blocked
    /\ full_prompt' = [full_prompt EXCEPT ![i] = ComposePrompt(prompt[i], style[i])]
    /\ io' = [io EXCEPT ![i] = Append(@, DeferRequest)]
    /\ pc' = [pc EXCEPT ![i] = "defer"]
    /\ UNCHANGED <<generate_logo_svg, prompt, style, svg_code, e>>

\* StartDefer with the remote call made before the deferral: line 82 first.
StartDefer_RemoteFirst(i) ==
    /\ pc[i] = "queued"
    /\ ~Blocked
    /\ generate_logo_svg # "None"
    /\ full_prompt' = [full_prompt EXCEPT ![i] = ComposePrompt(prompt[i], style[i])]
    /\ io' = [io EXCEPT ![i] = Append(@, RemoteCall(ComposePrompt(prompt[i], style[i])))]
    /\ pc' = [pc EXCEPT ![i] = "remote"]
    /\ UNCHANGED <<generate_logo_svg, prompt, style, svg_code, e>>

\* Lines 65, 72-78: the handler composes the prompt and sends the deferral.
StartDefer(i) ==
    /\ pc[i] = "queued"
    /\ ~Blocked
    /\ generate_logo_svg # "None"
    /\ full_prompt' = [full_prompt EXCEPT ![i] = ComposePrompt(prompt[i], style[i])]
    /\ io' = [io EXCEPT ![i] = Append(@, DeferRequest)]
    /\ pc' = [pc EXCEPT ![i] = "defer"]
    /\ UNCHANGED <<generate_logo_svg, prompt, style, svg_code, e>>

\* Lines 66-70: send_message returns, and the handler returns.
SendMessageAccepted(i) ==
    /\ pc[i] = "send_message"
    /\ ~Blocked
    /\ io' = [io EXCEPT ![i] = Settled(@, "accepted")]
    /\ pc' = [pc EXCEPT ![i] = "done"]
    /\ UNCHANGED <<generate_logo_svg, prompt, style, full_prompt, svg_code, e>>

\* Line 66: send_message raises; nothing catches it.
SendMessageRejected(i) ==
    /\ pc[i] = "send_message"
    /\ ~Blocked
    /\ io' = [io EXCEPT ![i] = Settled(@, "rejected")]
    /\ pc' = [pc EXCEPT ![i] = "raised"]
    /\ UNCHANGED <<generate_logo_svg, prompt, style, full_prompt, svg_code, e>>

\* Lines 78-82: defer returns; the handler enters the try block and calls
\* the remote generator, which keeps the thread.
DeferAccepted(i) ==
    /\ pc[i] = "defer"
    /\ ~Blocked
    /\ io' = [io EXCEPT ![i] = Append(Settled(@, "accepted"), RemoteCall(full_prompt[i]))]
    /\ pc' = [pc EXCEPT ![i] = "remote"]
    /\ UNCHANGED <<generate_logo_svg, prompt, style, full_prompt, svg_code, e>>

\* Line 78: defer raises outside the try block; nothing catches it.
DeferRejected(i) ==
    /\ pc[i] = "defer"
    /\ ~Blocked
    /\ io' = [io EXCEPT ![i] = Settled(@, "rejected")]
    /\ pc' = [pc EXCEPT ![i] = "raised"]
    /\ UNCHANGED <<generate_logo_svg, prompt, style, full_prompt, svg_code, e>>

\* Lines 82-97: the remote call returns svg; the handler builds the file and
\* the embed and sends them as a follow-up.
RemoteReturns(i, svg, t) ==
    /\ pc[i] = "remote"
    /\ svg_code' = [svg_code EXCEPT ![i] = svg]
    /\ io' = [io EXCEPT ![i] =
                Append([@ EXCEPT ![Len(@)].status = "returned", ![Len(@)].outcome = <<svg>>],
                       ResultFollowup(full_prompt[i], svg, t))]
    /\ pc' = [pc EXCEPT ![i] = "send_result"]
    /\ UNCHANGED <<generate_logo_svg, prompt, style, full_prompt, e>>

\* RemoteRaises with an except block that sends nothing.
RemoteRaises_Swallowed(i, exc) ==
    /\ pc[i] = "remote"
    /\ e' = [e EXCEPT ![i] = <<exc>>]
    /\ io' = [io EXCEPT ![i] =
                [@ EXCEPT ![Len(@)].status = "raised", ![Len(@)].outcome = <<exc>>]]
    /\ pc' = [pc EXCEPT ![i] = "done"]
    /\ UNCHANGED <<generate_logo_svg, prompt, style, full_prompt, svg_code>>

\* Lines 82, 99-105: the remote call raises exc; the handler sends the notice.
RemoteRaises(i, exc) ==
    /\ pc[i] = "remote"
    /\ e' = [e EXCEPT ![i] = <<exc>>]
    /\ io' = [io EXCEPT ![i] =
                Append([@ EXCEPT ![Len(@)].status = "raised", ![Len(@)].outcome = <<exc>>],
                       ErrorFollowup(exc))]
    /\ pc' = [pc EXCEPT ![i] = "send_error"]
    /\ UNCHANGED <<generate_logo_svg, prompt, style, full_prompt, svg_code>>

\* Line 97: followup.send returns, and the handler returns.
SendResultAccepted(i) ==
    /\ pc[i] = "send_result"
    /\ ~Blocked
    /\ io' = [io EXCEPT ![i] = Settled(@, "accepted")]
    /\ pc' = [pc EXCEPT ![i] = "done"]
    /\ UNCHANGED <<generate_logo_svg, prompt, style, full_prompt, svg_code, e>>

\* SendResultRejected with a retry: the except block calls the remote
\* generator again.
SendResultRejected_Retry(i, exc) ==
    /\ pc[i] = "send_result"
    /\ ~Blocked
    /\ e' = [e EXCEPT ![i] = <<exc>>]
    /\ io' = [io EXCEPT ![i] = Append(Settled(@, "rejected"), RemoteCall(full_prompt[i]))]
    /\ pc' = [pc EXCEPT ![i] = "remote"]
    /\ UNCHANGED <<generate_logo_svg, prompt, style, full_prompt, svg_code>>

\* Lines 97, 99-105: followup.send raises exc inside the try block; the
\* handler catches it and sends the notice.
SendResultRejected(i, exc) ==
    /\ pc[i] = "send_result"
    /\ ~Blocked
    /\ e' = [e EXCEPT ![i] = <<exc>>]
    /\ io' = [io EXCEPT ![i] = Append(Settled(@, "rejected"), ErrorFollowup(exc))]
    /\ pc' = [pc EXCEPT ![i] = "send_error"]
    /\ UNCHANGED <<generate_logo_svg, prompt, style, full_prompt, svg_code>>

\* Line 105: followup.send returns, and the handler returns.
SendErrorAccepted(i) ==
    /\ pc[i] = "send_error"
    /\ ~Blocked
    /\ io' = [io EXCEPT ![i] = Settled(@, "accepted")]
    /\ pc' = [pc EXCEPT ![i] = "done"]
    /\ UNCHANGED <<generate_logo_svg, prompt, style, full_prompt, svg_code, e>>

\* Line 105: followup.send raises inside the except block; nothing catches it.
SendErrorRejected(i) ==
    /\ pc[i] = "send_error"
    /\ ~Blocked
    /\ io' = [io EXCEPT ![i] = Settled(@, "rejected")]
    /\ pc' = [pc EXCEPT ![i] = "raised"]
    /\ UNCHANGED <<generate_logo_svg, prompt, style, full_prompt, svg_code, e>>

\* The steps of the handler of invocation i that the event loop runs.
LoopStep(i) ==
    \/ StartUnavailable(i)
    \/ StartDefer(i)
    \/ SendMessageAccepted(i)
    \/ SendMessageRejected(i)
    \/ DeferAccepted(i)
    \/ DeferRejected(i)
    \/ SendResultAccepted(i)
    \/ \E exc \in PlatformErrors : SendResultRejected(i, exc)
    \/ SendErrorAccepted(i)
    \/ SendErrorRejected(i)

\* The end of the blocking remote call of invocation i.
RemoteStep(i) ==
    \/ \E svg \in SvgResults, t \in SampleTimes : RemoteReturns(i, svg, t)
    \/ \E exc \in RemoteErrors : RemoteRaises(i, exc)

Next ==
    \/ \E i \in Inv : \E ps \in Parameters(i) : Invoke(i, ps[1], ps[2])
    \/ \E i \in Inv : LoopStep(i)
    \/ \E i \in Inv : RemoteStep(i)

Spec == Init /\ [][Next]_vars

\* The event loop runs the handlers' steps and the remote generator answers;
\* every request is answered, one way or the other.
FairSpec ==
    Spec /\ \A i \in Inv : WF_vars(LoopStep(i)) /\ WF_vars(RemoteStep(i))

-----------------------------------------------------------------------------
(* Vocabulary of the properties.                                           *)

Indices(i) == 1..Len(io[i])

IsRemote(r) == r.kind = "remote"
IsFollowup(r) == r.kind = "followup"
IsInitialResponse(r) == r.kind \in {"send_message", "defer"}

\* A failure notice: the follow-up that carries the "Generation Failed" embed.
IsNotice(r) == IsFollowup(r) /\ r.embeds # <<>> /\ r.embeds[1].title = FailedTitle

\* A follow-up that carries an attachment.
HasAttachment(r) == IsFollowup(r) /\ r.files # <<>>

Count(i, P(_)) == Cardinality({k \in Indices(i) : P(io[i][k])})

Terminated(i) == pc[i] \in {"done", "raised"}

\* The deferred acknowledgment of invocation i reached the platform.
Acknowledged(i) ==
    \E k \in Indices(i) : io[i][k].kind = "defer" /\ io[i][k].status = "accepted"

IsDigit(c) == c \in 48..57

\* name is logo_<YYYYMMDD_HHMMSS>.svg: eight digits, an underscore, six digits.
IsLogoFilename(name) ==
    /\ Len(name) = 24
    /\ SubSeq(name, 1, 5) = LogoPrefix
    /\ \A k \in 6..13 : IsDigit(name[k])
    /\ name[14] = 95
    /\ \A k \in 15..20 : IsDigit(name[k])
    /\ SubSeq(name, 21, 24) = SvgSuffix

\* sub occurs in s.
Contains(s, sub) ==
    \E a \in 0..(Len(s) - Len(sub)) : SubSeq(s, a + 1, a + Len(sub)) = sub

\* The text a sequence of bytes stands for in UTF-8; <<-1>> marks bytes that
\* are no UTF-8.
RECURSIVE Utf8Decode(_)
Utf8Decode(b) ==
    IF b = <<>> THEN <<>>
    ELSE LET n == IF b[1] < 128 THEN 1
                  ELSE IF b[1] \in 192..223 THEN 2
                  ELSE IF b[1] \in 224..239 THEN 3
                  ELSE IF b[1] \in 240..247 THEN 4 ELSE 0
             lead == IF n = 1 THEN b[1]
                     ELSE IF n = 2 THEN b[1] - 192
                     ELSE IF n = 3 THEN b[1] - 224 ELSE b[1] - 240
             Cont(k) == b[k] - 128
         IN  IF n = 0 \/ Len(b) < n \/ \E k \in 2..n : b[k] \notin 128..191
             THEN <<-1>>
             ELSE LET cp == IF n = 1 THEN lead
                            ELSE IF n = 2 THEN lead * 64 + Cont(2)
                            ELSE IF n = 3 THEN lead * 4096 + Cont(2) * 64 + Cont(3)
                            ELSE lead * 262144 + Cont(2) * 4096 + Cont(3) * 64 + Cont(4)
                 IN  <<cp>> \o Utf8Decode(SubSeq(b, n + 1, Len(b)))

-----------------------------------------------------------------------------
\* C1: while generate_logo_svg is None, no invocation calls the remote
\* generator, defers or sends a follow-up; a handler that has started has sent
\* exactly one request, the ephemeral send_message with the notice, and a
\* handler that returned had it accepted.
C1_UnavailableShortCircuits ==
    generate_logo_svg = "None" =>
        \A i \in Inv :
            /\ \A k \in Indices(i) : io[i][k].kind = "send_message"
            /\ pc[i] \notin {"none", "queued"} =>
                   /\ Len(io[i]) = 1
                   /\ io[i][1].ephemeral
                   /\ io[i][1].content = NotConnectedText
                   /\ io[i][1].files = <<>>
            /\ pc[i] = "done" => io[i][1].status = "accepted"
            /\ pc[i] \in {"none", "queued", "send_message", "done", "raised"}

\* An invocation ended with its private notice while the generator is unset.
C1_Witness ==
    /\ generate_logo_svg = "None"
    /\ \E i \in Inv : pc[i] = "done" /\ io[i][1].status = "accepted"

\* C2: every call of the remote generator by an invocation comes after that
\* invocation's deferral, and the platform had accepted the deferral.
C2_DeferBeforeRemote ==
    \A i \in Inv : \A k \in Indices(i) :
        IsRemote(io[i][k]) =>
            \E j \in 1..(k - 1) :
                io[i][j].kind = "defer" /\ io[i][j].status = "accepted"

\* An invocation is inside its remote call.
C2_Witness == \E i \in Inv : pc[i] = "remote" /\ IsRemote(io[i][Len(io[i])])

\* C3: while an invocation waits for the remote generator, every other
\* invocation whose handler has a step to take can take it.
C3_OthersProgressDuringRemote ==
    \A i, j \in Inv :
        ( /\ i # j
          /\ pc[i] = "remote"
          /\ pc[j] \in {"queued", "defer", "send_result", "send_error"} )
        => ENABLED LoopStep(j)

\* The remote call of invocation i returned.
RemoteSucceeded(i) ==
    \E k \in Indices(i) : IsRemote(io[i][k]) /\ io[i][k].status = "returned"

\* r is the public message with the result: not ephemeral, exactly one
\* attachment, named logo_<YYYYMMDD_HHMMSS>.svg.
IsPublicResult(r) ==
    /\ IsFollowup(r)
    /\ ~r.ephemeral
    /\ Len(r.files) = 1
    /\ IsLogoFilename(r.files[1].filename)
    /\ ~IsNotice(r)

\* C4 as stated: once the remote call of an invocation has returned, every
\* follow-up of that invocation is the public message with the one attachment
\* logo_<YYYYMMDD_HHMMSS>.svg, and none is a failure notice.
C4_SuccessIsPublicAttachment ==
    \A i \in Inv :
        RemoteSucceeded(i) =>
            \A k \in Indices(i) : IsFollowup(io[i][k]) => IsPublicResult(io[i][k])

\* C4 amended: the follow-up sent when the remote call returns is the public
\* message with the one attachment logo_<YYYYMMDD_HHMMSS>.svg; when the
\* platform accepts it, it is the invocation's only follow-up and the handler
\* has returned; a failure notice follows a returned remote call only after
\* the sending of the result was rejected.
C4_SuccessIsPublicAttachmentUnlessSendFails ==
    \A i \in Inv : \A k \in Indices(i) :
        (IsRemote(io[i][k]) /\ io[i][k].status = "returned") =>
            /\ k + 1 \in Indices(i)
            /\ IsPublicResult(io[i][k + 1])
            /\ io[i][k + 1].status = "accepted" =>
                   /\ Len(io[i]) = k + 1
                   /\ Count(i, IsFollowup) = 1
                   /\ Count(i, IsNotice) = 0
                   /\ pc[i] = "done"
            /\ \A n \in Indices(i) :
                   IsNotice(io[i][n]) =>
                       n = k + 2 /\ io[i][k + 1].status = "rejected"

\* The result of a returned remote call was delivered.
C4_Witness ==
    \E i \in Inv :
        /\ RemoteSucceeded(i)
        /\ pc[i] = "done"
        /\ io[i][Len(io[i])].status = "accepted"
        /\ HasAttachment(io[i][Len(io[i])])

\* C5: when the remote call of an invocation raises, the handler's one
\* response to it is a follow-up that is ephemeral, quotes str(e) of the
\* raised exception and carries no attachment.
C5_RemoteErrorIsPrivateNotice ==
    \A i \in Inv : \A k \in Indices(i) :
        (IsRemote(io[i][k]) /\ io[i][k].status = "raised") =>
            /\ Len(io[i]) = k + 1
            /\ IsFollowup(io[i][k + 1])
            /\ io[i][k + 1].ephemeral
            /\ io[i][k + 1].files = <<>>
            /\ Len(io[i][k + 1].embeds) = 1
            /\ Contains(io[i][k + 1].embeds[1].description, Str(io[i][k].outcome[1]))
            /\ io[i][k + 1].embeds[1].description
                   = Fence \o Str(io[i][k].outcome[1]) \o Fence

\* The notice of a remote call that raised with a text was delivered.
C5_Witness ==
    \E i \in Inv :
        /\ pc[i] = "done"
        /\ \E k \in Indices(i) :
               /\ IsRemote(io[i][k]) /\ io[i][k].status = "raised"
               /\ Str(io[i][k].outcome[1]) # <<>>
               /\ io[i][k + 1].status = "accepted"

\* Something failed in invocation i: its remote call raised, or the sending
\* of its result was rejected.
Failed(i) ==
    \E k \in Indices(i) :
        \/ IsRemote(io[i][k]) /\ io[i][k].status = "raised"
        \/ HasAttachment(io[i][k]) /\ io[i][k].status = "rejected"

\* C6: an invocation calls the remote generator at most once, whatever
\* happens, and once something failed in it no attachment of it is delivered
\* and no further attachment is sent.
C6_NoRetryNoPartialOutput ==
    \A i \in Inv :
        /\ Count(i, IsRemote) <= 1
        /\ Failed(i) =>
               /\ \A k \in Indices(i) :
                      HasAttachment(io[i][k]) => io[i][k].status = "rejected"
               /\ Count(i, HasAttachment) <= 1

\* The sending of a result was rejected and the handler has finished.
C6_Witness ==
    \E i \in Inv :
        /\ Terminated(i)
        /\ \E k \in Indices(i) : HasAttachment(io[i][k]) /\ io[i][k].status = "rejected"

\* "a fox"   and   "a fox in retro 80s synthwave style"
AFox == <<97, 32, 102, 111, 120>>
AFoxRetro == <<97, 32, 102, 111, 120, 32, 105, 110, 32, 114, 101, 116, 114, 111, 32, 56, 48, 115, 32, 115, 121, 110, 116, 104, 119, 97, 118, 101, 32, 115, 116, 121, 108, 101>>

\* C7: the prompt passed to the remote generator is the invocation's prompt
\* when no style was chosen and "<prompt> in <style value> style" otherwise,
\* and the summary of the result shows the same text after "**Prompt:** ".
C7_ComposedPromptPassedAndShown ==
    \A i \in Inv :
        LET expected ==
                IF style[i] = NoStyle THEN prompt[i]
                ELSE prompt[i] \o InText \o StyleChoices[style[i]] \o StyleText
        IN  \A k \in Indices(i) :
                /\ IsRemote(io[i][k]) => io[i][k].prompt = expected
                /\ HasAttachment(io[i][k]) =>
                       io[i][k].embeds[1].description = PromptLabel \o expected
                /\ (IsRemote(io[i][k]) /\ prompt[i] = AFox /\ style[i] = "Retro") =>
                       io[i][k].prompt = AFoxRetro
                /\ (IsRemote(io[i][k]) /\ prompt[i] = AFox /\ style[i] = NoStyle) =>
                       io[i][k].prompt = AFox

\* "a fox" with Retro reached the remote generator and "a fox" without a
\* style had its result sent.
C7_Witness ==
    /\ \E i \in Inv :
           /\ prompt[i] = AFox /\ style[i] = "Retro"
           /\ \E k \in Indices(i) : IsRemote(io[i][k])
    /\ \E i \in Inv :
           /\ style[i] = NoStyle
           /\ \E k \in Indices(i) : HasAttachment(io[i][k])

\* C8: the attachment of an invocation holds, in UTF-8, exactly the text the
\* remote generator returned to that invocation.
C8_AttachmentIsOwnResult ==
    \A i \in Inv : \A k \in Indices(i) :
        HasAttachment(io[i][k]) =>
            /\ k > 1
            /\ IsRemote(io[i][k - 1])
            /\ io[i][k - 1].status = "returned"
            /\ Len(io[i][k].files) = 1
            /\ Utf8Decode(io[i][k].files[1].fp) = io[i][k - 1].outcome[1]

\* Two invocations were in flight together, got different results, and both
\* results were delivered; one result has code points of several bytes.
C8_Witness ==
    \E i, j \in Inv :
        /\ i # j
        /\ pc[i] = "done" /\ pc[j] = "done"
        /\ HasAttachment(io[i][Len(io[i])]) /\ io[i][Len(io[i])].status = "accepted"
        /\ HasAttachment(io[j][Len(io[j])]) /\ io[j][Len(io[j])].status = "accepted"
        /\ svg_code[i] # svg_code[j]
        /\ Len(io[i][Len(io[i])].files[1].fp) > Len(svg_code[i])

\* Number of follow-ups of invocation i the platform accepted.
Delivered(i) ==
    Cardinality({k \in Indices(i) : IsFollowup(io[i][k]) /\ io[i][k].status = "accepted"})

\* The platform rejected a follow-up of invocation i.
FollowupRejected(i) ==
    \E k \in Indices(i) : IsFollowup(io[i][k]) /\ io[i][k].status = "rejected"

\* C9: an acknowledged invocation eventually has its handler returned with
\* exactly one follow-up delivered, the result or the failure notice, unless
\* the platform rejected a follow-up of it.
C9_AcknowledgedIsAnswered ==
    \A i \in Inv :
        Acknowledged(i) ~>
            \/ pc[i] = "done" /\ Delivered(i) = 1
            \/ FollowupRejected(i)

\* An acknowledged invocation returned with one follow-up delivered, none
\* rejected.
C9_Witness ==
    \E i \in Inv :
        /\ Acknowledged(i)
        /\ pc[i] = "done"
        /\ Delivered(i) = 1
        /\ ~FollowupRejected(i)

\* C10: a started invocation has used its initial response exactly once, as
\* its first request: the ephemeral send_message when the generator is
\* unset, the deferral otherwise; every follow-up comes after the accepted
\* deferral; and an invocation whose result was accepted sent no failure
\* notice.
C10_ResponseProtocol ==
    \A i \in Inv :
        /\ Count(i, IsInitialResponse) <= 1
        /\ pc[i] \notin {"none", "queued"} =>
               /\ Count(i, IsInitialResponse) = 1
               /\ IsInitialResponse(io[i][1])
               /\ io[i][1].kind = "send_message" <=> generate_logo_svg = "None"
        /\ \A k \in Indices(i) :
               IsFollowup(io[i][k]) =>
                   \E j \in 1..(k - 1) :
                       io[i][j].kind = "defer" /\ io[i][j].status = "accepted"
        /\ (\E k \in Indices(i) : HasAttachment(io[i][k]) /\ io[i][k].status = "accepted")
               => Count(i, IsNotice) = 0

\* One invocation delivered its result while another delivered a notice.
C10_Witness ==
    \E i, j \in Inv :
        /\ pc[i] = "done" /\ pc[j] = "done"
        /\ HasAttachment(io[i][Len(io[i])]) /\ io[i][Len(io[i])].status = "accepted"
        /\ IsNotice(io[j][Len(io[j])]) /\ io[j][Len(io[j])].status = "accepted"

=============================================================================
